---- MODULE Spec2Model ----
(***************************************************************************)
(* Model of the read-only reddit client of src/client.go: construction     *)
(* with eager login, the token check and refresh in front of every GET,    *)
(* the single-page listing calls and the pagination loop.                  *)
(*                                                                         *)
(* Time is counted in whole seconds.  Strings that the code only compares  *)
(* with "" are modelled by strings; listing cursors (fullnames of items)   *)
(* are modelled by the position of the item in the listing, 1..N, with 0   *)
(* for the empty string and -1 for a JSON null.                            *)
(***************************************************************************)
EXTENDS Integers, Sequences, FiniteSets, TLC

\* ------------------------------------------------------------------ bounds
MaxTime == 2
MaxExpiresIn == 6
MaxListingPages == 3
MaxInterval == 2
MaxCalls == 2

\* ------------------------------------------------- constants of the program
DefaultSliceSize == 100
SafetyMargin == 5
ServerDefaultLimit == 25
ServerMaxLimit == 100

Nil == "nil"
NilToken == [nil |-> TRUE]
NilClient == [nil |-> TRUE]
NilSlice == [nil |-> TRUE]
NilThrottle == [nil |-> TRUE]
NoCall == 0 - 1
NoErr == "ok"
EmptyCursor == 0
JsonNull == 0 - 1

ErrClientID == "clientId must not be null, nor empty"
ErrClientSecret == "clientSecret must not be null, nor empty"
ErrUserAgent == "userAgent must not be null, nor empty"
ErrSubreddit == "subreddit cannot be null nor empty"
ErrAuthor == "author cannot be null nor empty"
ErrNoRefreshToken == "oauth2: token expired and refresh token is not set"
ErrTokenStatus == "oauth2: cannot fetch token, status"
ErrMissingAccessToken == "oauth2: server response missing access_token"
ErrGetStatus == "cannot do get request, status"
ErrContentType == "unknown response content type"
ErrMime == "mime: no media type"
ErrTransport == "transport error"
ErrJSON == "json: cannot unmarshal"
ErrGzip == "gzip: invalid header"

Min(a, b) == IF a < b THEN a ELSE b
Max(a, b) == IF a > b THEN a ELSE b

\* ------------------------------------------------------- pure helper code
\* mime.ParseMediaType applied to the Content-Type header.
ParseMediaType(header) ==
    IF header = "" THEN [type |-> "", err |-> ErrMime]
    ELSE IF header = "application/json; charset=UTF-8"
         THEN [type |-> "application/json", err |-> NoErr]
         ELSE [type |-> header, err |-> NoErr]

StatusOK(code) == ~(code < 200 \/ code > 299)

\* ioutil.ReadAll(io.LimitReader(body, 1<<20)): what the first MiB of a body
\* holds.  "json" is a well-formed document of at most 1 MiB; "json-padded" a
\* well-formed document followed by white space that reaches beyond the first
\* MiB; "json-cut" a well-formed document longer than 1 MiB, whose first MiB
\* is not a document.
LimitRead(body) ==
    IF body = "json-padded" THEN "json"
    ELSE IF body = "json-cut" THEN "garbage"
    ELSE body

\* gzip.NewReader on the body of the content endpoint: Nil for a body that
\* is not gzip.
Gunzip(body) ==
    IF body = "gzip-json" THEN "json"
    ELSE IF body = "gzip-json-padded" THEN "json-padded"
    ELSE IF body = "gzip-json-cut" THEN "json-cut"
    ELSE IF body = "gzip-garbage" THEN "garbage"
    ELSE Nil

\* response.Cookies() searched for the cookie named edgebucket.
CorrectCookie(resp) == resp.edgebucket

\* A variant of retrieveTokenAndCookie without the test of the status code,
\* for the sensitivity of C9.
RetrieveTokenAndCookieAnyStatus(values, resp, t) ==
    LET mt == ParseMediaType(resp.ctype)
        refresh == IF resp.refresh_token = ""
                   THEN (IF "refresh_token" \in DOMAIN values
                         THEN values.refresh_token ELSE "")
                   ELSE resp.refresh_token
        token == [AccessToken |-> resp.access_token,
                  RefreshToken |-> refresh,
                  Expiry |-> t + resp.expires_in]
    IN  IF resp.neterr THEN [token |-> NilToken, cookie |-> Nil, err |-> ErrTransport]
        ELSE IF mt.err # NoErr THEN [token |-> NilToken, cookie |-> Nil, err |-> mt.err]
        ELSE IF mt.type # "application/json"
             THEN [token |-> NilToken, cookie |-> Nil, err |-> ErrContentType]
        ELSE IF LimitRead(resp.body) # "json"
             THEN [token |-> NilToken, cookie |-> Nil, err |-> ErrJSON]
        ELSE IF resp.access_token = ""
             THEN [token |-> token, cookie |-> Nil, err |-> ErrMissingAccessToken]
        ELSE [token |-> token, cookie |-> CorrectCookie(resp), err |-> NoErr]

\* A variant that takes the refresh token of the answer as it is, for the
\* sensitivity of C12.
RetrieveTokenAndCookieNoFallback(values, resp, t) ==
    LET mt == ParseMediaType(resp.ctype)
        token == [AccessToken |-> resp.access_token,
                  RefreshToken |-> resp.refresh_token,
                  Expiry |-> t + resp.expires_in]
    IN  IF resp.neterr THEN [token |-> NilToken, cookie |-> Nil, err |-> ErrTransport]
        ELSE IF ~StatusOK(resp.status)
             THEN [token |-> NilToken, cookie |-> Nil, err |-> ErrTokenStatus]
        ELSE IF mt.err # NoErr THEN [token |-> NilToken, cookie |-> Nil, err |-> mt.err]
        ELSE IF mt.type # "application/json"
             THEN [token |-> NilToken, cookie |-> Nil, err |-> ErrContentType]
        ELSE IF LimitRead(resp.body) # "json"
             THEN [token |-> NilToken, cookie |-> Nil, err |-> ErrJSON]
        ELSE IF resp.access_token = ""
             THEN [token |-> token, cookie |-> Nil, err |-> ErrMissingAccessToken]
        ELSE [token |-> token, cookie |-> CorrectCookie(resp), err |-> NoErr]

\* retrieveTokenAndCookie: POST of `values` to the token endpoint answered by
\* `resp` at time t.  Returns the token, the cookie and the error.
RetrieveTokenAndCookie(values, resp, t) ==
    LET mt == ParseMediaType(resp.ctype)
        refresh == IF resp.refresh_token = ""
                   THEN (IF "refresh_token" \in DOMAIN values
                         THEN values.refresh_token ELSE "")
                   ELSE resp.refresh_token
        token == [AccessToken |-> resp.access_token,
                  RefreshToken |-> refresh,
                  Expiry |-> t + resp.expires_in]
    IN  IF resp.neterr THEN [token |-> NilToken, cookie |-> Nil, err |-> ErrTransport]
        ELSE IF ~StatusOK(resp.status)
             THEN [token |-> NilToken, cookie |-> Nil, err |-> ErrTokenStatus]
        ELSE IF mt.err # NoErr THEN [token |-> NilToken, cookie |-> Nil, err |-> mt.err]
        ELSE IF mt.type # "application/json"
             THEN [token |-> NilToken, cookie |-> Nil, err |-> ErrContentType]
        ELSE IF LimitRead(resp.body) # "json"
             THEN [token |-> NilToken, cookie |-> Nil, err |-> ErrJSON]
        ELSE IF resp.access_token = ""
             THEN [token |-> token, cookie |-> Nil, err |-> ErrMissingAccessToken]
        ELSE [token |-> token, cookie |-> CorrectCookie(resp), err |-> NoErr]

PostRequest(values) == [method |-> "POST", values |-> values]

\* A variant that stores whatever token came back, for the sensitivity of
\* C11.
StoreTokenReturned(c, r, rs) ==
    IF r.token = NilToken
    THEN [client |-> c, err |-> r.err, reqs |-> rs]
    ELSE [client |-> [c EXCEPT !.Token = r.token, !.Cookie = r.cookie],
          err |-> r.err, reqs |-> rs]

\* A variant that keeps the stored cookie when the answer sets none, for the
\* sensitivity of C24.
StoreTokenKeepCookie(c, r, rs) ==
    IF r.err # NoErr
    THEN [client |-> c, err |-> r.err, reqs |-> rs]
    ELSE [client |-> [c EXCEPT !.Token = r.token,
                               !.Cookie = IF r.cookie = Nil THEN c.Cookie
                                          ELSE r.cookie],
          err |-> NoErr, reqs |-> rs]

\* The end of loginAuth and of refreshLoginAuth: r is what
\* retrieveTokenAndCookie returned, rs the requests sent.  Token and cookie
\* are assigned only when there is no error.
StoreToken(c, r, rs) ==
    IF r.err # NoErr
    THEN [client |-> c, err |-> r.err, reqs |-> rs]
    ELSE [client |-> [c EXCEPT !.Token = r.token, !.Cookie = r.cookie],
          err |-> NoErr, reqs |-> rs]

LoginValues == [grant_type |-> "client_credentials"]

\* loginAuth on client c: returns the client after the call, the error and
\* the requests sent.
LoginAuth(c, resp, t) ==
    StoreToken(c, RetrieveTokenAndCookie(LoginValues, resp, t),
               <<PostRequest(LoginValues)>>)

RefreshValues(c) ==
    [grant_type |-> "refresh_token", refresh_token |-> c.Token.RefreshToken]

\* Variants of refreshLoginAuth, for the sensitivity of C7 and C8: without
\* the test of the stored refresh token, and with the test after the request.
RefreshLoginAuthNoCheck(c, resp, t) ==
    StoreToken(c, RetrieveTokenAndCookie(RefreshValues(c), resp, t),
               <<PostRequest(RefreshValues(c))>>)

RefreshLoginAuthLateCheck(c, resp, t) ==
    IF c.Token.RefreshToken = ""
    THEN [client |-> c, err |-> ErrNoRefreshToken,
          reqs |-> <<PostRequest(RefreshValues(c))>>]
    ELSE StoreToken(c, RetrieveTokenAndCookie(RefreshValues(c), resp, t),
                    <<PostRequest(RefreshValues(c))>>)

\* refreshLoginAuth on client c.
RefreshLoginAuth(c, resp, t) ==
    IF c.Token.RefreshToken = ""
    THEN [client |-> c, err |-> ErrNoRefreshToken, reqs |-> <<>>]
    ELSE StoreToken(c, RetrieveTokenAndCookie(RefreshValues(c), resp, t),
                    <<PostRequest(RefreshValues(c))>>)

\* Throttle(interval): rate.New(1, interval), a limiter that has let no call
\* pass yet, or no limiter for interval 0.
NewThrottle(interval) ==
    IF interval = 0 THEN NilThrottle
    ELSE [interval |-> interval, last |-> NoCall]

\* c.throttle.Wait() called at time t returns at this time: at once without
\* a limiter or on its first call, otherwise not before one interval has
\* passed since the call it let pass last.
WaitUntil(c, t) ==
    IF c.throttle = NilThrottle THEN t
    ELSE IF c.throttle.last = NoCall THEN t
    ELSE Max(t, c.throttle.last + c.throttle.interval)

\* The client after c.throttle.Wait() has returned.
ThrottleWait(c, t) ==
    IF c.throttle = NilThrottle THEN c
    ELSE [c EXCEPT !.throttle = [interval |-> c.throttle.interval,
                                 last |-> WaitUntil(c, t)]]

\* A variant that finds every token expiring, for the sensitivity of C6.
TokenExpiringAlways(c, t) == c.Token.Expiry < t + SafetyMargin \/ TRUE

\* The test of doGetRequest: c.Token.Expiry.Before(time.Now().Add(5s)).
TokenExpiring(c, t) == c.Token.Expiry < t + SafetyMargin

\* query.Values(params): every field of ListingOptions is tagged omitempty,
\* so a zero Limit and an empty After or Before are left out of the query.
QueryNames(params) ==
    (IF params.Limit # 0 THEN {"limit"} ELSE {})
    \cup (IF params.After # EmptyCursor THEN {"after"} ELSE {})
    \cup (IF params.Before # EmptyCursor THEN {"before"} ELSE {})

QueryValues(params) ==
    [n \in QueryNames(params) |-> IF n = "limit" THEN params.Limit
                                  ELSE IF n = "after" THEN params.After
                                  ELSE params.Before]

\* ------------------------------------------------------- the remote server
\* The content endpoint serves a listing of s.N items, item i having the
\* fullname i.  On the page that reaches the end of the listing it answers
\* after = null (s.endCursor = "null", what reddit does) or the fullname of
\* the last item (s.endCursor = "last"); a server with s.endCursor = "stuck"
\* answers the fullname of the first item with every page.  It returns at
\* most s.cap items a page, whatever the limit asks for.
ServerLimit(q) ==
    IF "limit" \notin DOMAIN q THEN ServerDefaultLimit
    ELSE Max(0, Min(q.limit, ServerMaxLimit))

PageFrom(s, start, hi) ==
    IF hi <= start
    THEN [children |-> <<>>, after |-> JsonNull, before |-> JsonNull]
    ELSE [children |-> [i \in 1..(hi - start) |-> start + i],
          after |-> IF s.endCursor = "stuck" THEN 1
                    ELSE IF hi < s.N \/ s.endCursor = "last" THEN hi
                    ELSE JsonNull,
          before |-> IF start = 0 THEN JsonNull ELSE start + 1]

PageStart(q) == IF "after" \in DOMAIN q THEN q.after ELSE 0

ServerPage(s, q) ==
    PageFrom(s, PageStart(q),
             Min(PageStart(q) + Min(ServerLimit(q), s.cap), s.N))

\* json.Unmarshal of the listing envelope into the Response struct: a null
\* cursor leaves the string field empty.
DecodeCursor(x) == IF x = JsonNull THEN EmptyCursor ELSE x

DecodeListing(page) ==
    [Children |-> page.children,
     After |-> DecodeCursor(page.after),
     Before |-> DecodeCursor(page.before)]

NoData == [Children |-> <<>>, After |-> EmptyCursor, Before |-> EmptyCursor]

GetRequest(c, q) ==
    [method |-> "GET", values |-> q,
     bearer |-> c.Token.AccessToken, cookie |-> c.Cookie]

\* A variant without the test of the content type, for the sensitivity of
\* C14.
ResponseErrorAnyType(getResp) ==
    IF getResp.neterr THEN ErrTransport
    ELSE IF ~StatusOK(getResp.status) THEN ErrGetStatus
    ELSE IF Gunzip(getResp.body) = Nil THEN ErrGzip
    ELSE IF LimitRead(Gunzip(getResp.body)) # "json" THEN ErrJSON
    ELSE NoErr

\* A variant that tests the content type before the status, for the
\* sensitivity of C22.
ResponseErrorTypeFirst(getResp) ==
    IF getResp.neterr THEN ErrTransport
    ELSE IF ParseMediaType(getResp.ctype).err # NoErr
         THEN ParseMediaType(getResp.ctype).err
    ELSE IF ParseMediaType(getResp.ctype).type # "application/json"
         THEN ErrContentType
    ELSE IF ~StatusOK(getResp.status) THEN ErrGetStatus
    ELSE IF Gunzip(getResp.body) = Nil THEN ErrGzip
    ELSE IF LimitRead(Gunzip(getResp.body)) # "json" THEN ErrJSON
    ELSE NoErr

\* doGetRequest, lines 285-317: the error the answer of the content endpoint
\* is turned into.
ResponseError(getResp) ==
    IF getResp.neterr THEN ErrTransport
    ELSE IF ~StatusOK(getResp.status) THEN ErrGetStatus
    ELSE IF ParseMediaType(getResp.ctype).err # NoErr
         THEN ParseMediaType(getResp.ctype).err
    ELSE IF ParseMediaType(getResp.ctype).type # "application/json"
         THEN ErrContentType
    ELSE IF Gunzip(getResp.body) = Nil THEN ErrGzip
    ELSE IF LimitRead(Gunzip(getResp.body)) # "json" THEN ErrJSON
    ELSE NoErr

\* A variant that sends the GET again when it has failed, for the
\* sensitivity of C16.
SendGetRetry(c, rs, q, getResp, page) ==
    [client |-> c,
     err |-> ResponseError(getResp),
     reqs |-> IF ResponseError(getResp) = NoErr
              THEN rs \o <<GetRequest(c, q)>>
              ELSE rs \o <<GetRequest(c, q), GetRequest(c, q)>>,
     data |-> IF ResponseError(getResp) = NoErr THEN DecodeListing(page)
              ELSE NoData]

\* doGetRequest, lines 269-320: the GET by client c after rs was sent.
SendGet(c, rs, q, getResp, page) ==
    [client |-> c,
     err |-> ResponseError(getResp),
     reqs |-> rs \o <<GetRequest(c, q)>>,
     data |-> IF ResponseError(getResp) = NoErr THEN DecodeListing(page)
              ELSE NoData]

\* doGetRequest, lines 264-269: r is what the token check returned.
AfterTokenCheck(r, q, getResp, page) ==
    IF r.err # NoErr
    THEN [client |-> r.client, err |-> r.err, reqs |-> r.reqs, data |-> NoData]
    ELSE SendGet(r.client, r.reqs, q, getResp, page)

\* doGetRequest, lines 260-320, from the token check on, at time t.
CheckToken(c, q, tokResp, getResp, page, t) ==
    AfterTokenCheck(IF TokenExpiring(c, t) THEN RefreshLoginAuth(c, tokResp, t)
                    ELSE [client |-> c, err |-> NoErr, reqs |-> <<>>],
                    q, getResp, page)

\* A variant that tests the token before it waits, for the sensitivity of
\* C21.
DoGetRequestCheckFirst(c, q, tokResp, getResp, page, t) ==
    CheckToken(ThrottleWait(c, t), q, tokResp, getResp, page, t)

\* doGetRequest called at time t: c is the client, q the query of the url,
\* tokResp what the token endpoint answers if it is asked, getResp what the
\* content endpoint answers, page the listing envelope in its body.  The one
\* wait on the throttle comes first; the token check and the requests follow
\* at the time the wait returns.
DoGetRequest(c, q, tokResp, getResp, page, t) ==
    CheckToken(ThrottleWait(c, t), q, tokResp, getResp, page, WaitUntil(c, t))

EmptySubjectError(f) == IF f = "SubmissionsTo" THEN ErrSubreddit ELSE ErrAuthor

\* A variant that hands the two cursors out in each other's place, for the
\* sensitivity of C18.
UnwrapSwapped(r) ==
    IF r.err # NoErr
    THEN [client |-> r.client, err |-> r.err, reqs |-> r.reqs,
          submissions |-> <<>>, slice |-> NilSlice]
    ELSE [client |-> r.client, err |-> NoErr, reqs |-> r.reqs,
          submissions |-> r.data.Children,
          slice |-> [Before |-> r.data.After, After |-> r.data.Before]]

\* SubmissionsTo / SubmissionsOf, lines 143-152: r is what doGetRequest
\* returned.
Unwrap(r) ==
    IF r.err # NoErr
    THEN [client |-> r.client, err |-> r.err, reqs |-> r.reqs,
          submissions |-> <<>>, slice |-> NilSlice]
    ELSE [client |-> r.client, err |-> NoErr, reqs |-> r.reqs,
          submissions |-> r.data.Children,
          slice |-> [Before |-> r.data.Before, After |-> r.data.After]]

\* A variant that tests the subject after the request, for the sensitivity
\* of C17.
SubmissionsLateCheck(f, c, subj, params, tokResp, getResp, s, t) ==
    IF subj = ""
    THEN [client |-> DoGetRequest(c, QueryValues(params), tokResp, getResp,
                                  ServerPage(s, QueryValues(params)), t).client,
          err |-> EmptySubjectError(f),
          reqs |-> DoGetRequest(c, QueryValues(params), tokResp, getResp,
                                ServerPage(s, QueryValues(params)), t).reqs,
          submissions |-> <<>>, slice |-> NilSlice]
    ELSE Unwrap(DoGetRequest(c, QueryValues(params), tokResp, getResp,
                             ServerPage(s, QueryValues(params)), t))

\* SubmissionsTo / SubmissionsOf: one page of the listing of `subj`.
Submissions(f, c, subj, params, tokResp, getResp, s, t) ==
    IF subj = ""
    THEN [client |-> c, err |-> EmptySubjectError(f), reqs |-> <<>>,
          submissions |-> <<>>, slice |-> NilSlice]
    ELSE Unwrap(DoGetRequest(c, QueryValues(params), tokResp, getResp,
                             ServerPage(s, QueryValues(params)), t))

\* ------------------------------------------------------------ environment
Gets(rs) == { i \in 1..Len(rs) : rs[i].method = "GET" }
Posts(rs) == { i \in 1..Len(rs) : rs[i].method = "POST" }

Strings == {"", "x"}
ExpiresIn == {0, MaxExpiresIn}

GoodTokenResponse ==
    [neterr |-> FALSE, status |-> 200,
     ctype |-> "application/json; charset=UTF-8", body |-> "json",
     access_token |-> "a1", refresh_token |-> "r1", expires_in |-> MaxExpiresIn,
     edgebucket |-> "e1"]

\* The tokens the endpoint hands out: with and without a refresh token, with
\* and without the edgebucket cookie.
Grants ==
    { [access_token |-> "a1", refresh_token |-> "r1", edgebucket |-> "e1"],
      [access_token |-> "a2", refresh_token |-> "r2", edgebucket |-> "e2"],
      [access_token |-> "a2", refresh_token |-> "", edgebucket |-> Nil],
      [access_token |-> "a1", refresh_token |-> "", edgebucket |-> "e2"] }

\* What the token endpoint may answer: the well-formed answers, and answers
\* that differ from a well-formed one in a single respect.
TokenResponses ==
    { [GoodTokenResponse EXCEPT !.access_token = g.access_token,
                                !.refresh_token = g.refresh_token,
                                !.edgebucket = g.edgebucket,
                                !.expires_in = e] : g \in Grants, e \in ExpiresIn }
    \cup { [GoodTokenResponse EXCEPT !.neterr = TRUE],
           [GoodTokenResponse EXCEPT !.status = 199],
           [GoodTokenResponse EXCEPT !.status = 300],
           [GoodTokenResponse EXCEPT !.status = 401],
           [GoodTokenResponse EXCEPT !.ctype = ""],
           [GoodTokenResponse EXCEPT !.ctype = "text/html"],
           [GoodTokenResponse EXCEPT !.body = "garbage"],
           [GoodTokenResponse EXCEPT !.access_token = ""] }

\* The token endpoint issued a token with this answer.
TokenIssued(resp) ==
    /\ ~resp.neterr
    /\ resp.status \in 200..299
    /\ resp.ctype \in {"application/json", "application/json; charset=UTF-8"}
    /\ resp.body \in {"json", "json-padded"}
    /\ resp.access_token # ""

GoodGetResponse ==
    [neterr |-> FALSE, status |-> 200,
     ctype |-> "application/json; charset=UTF-8", body |-> "gzip-json"]

GetResponses ==
    { GoodGetResponse,
      [GoodGetResponse EXCEPT !.neterr = TRUE],
      [GoodGetResponse EXCEPT !.status = 404],
      [GoodGetResponse EXCEPT !.status = 404, !.ctype = "text/html"],
      [GoodGetResponse EXCEPT !.ctype = "text/html"],
      [GoodGetResponse EXCEPT !.ctype = ""],
      [GoodGetResponse EXCEPT !.body = "plain"],
      [GoodGetResponse EXCEPT !.body = "gzip-garbage"] }

SessionGetResponses ==
    { GoodGetResponse,
      [GoodGetResponse EXCEPT !.neterr = TRUE],
      [GoodGetResponse EXCEPT !.status = 404, !.ctype = "text/html"] }

ListingSizes == {0, 50, 180} \cup { k * DefaultSliceSize : k \in 1..MaxListingPages }
Servers ==
    [N : ListingSizes, endCursor : {"null", "last"}, cap : {ServerMaxLimit}]
SessionServers == [N : {2}, endCursor : {"last"}, cap : {ServerMaxLimit}]
Totals == {0 - 1, 0, 1, 250}
          \cup { k * DefaultSliceSize + d : k \in 1..2, d \in {0 - 1, 0, 1} }
SessionTotals == {1, DefaultSliceSize + 1}
Fns == {"SubmissionsTo", "SubmissionsOf"}
ParamsIn ==
    { [Limit |-> 0, After |-> EmptyCursor, Before |-> EmptyCursor],
      [Limit |-> 1, After |-> 1, Before |-> EmptyCursor] }

\* ------------------------------------------------------------------ state
VARIABLES
    client,     \* the ReadOnlyRedditClient handed to the caller, or NilClient
    now,        \* the clock, in seconds
    srv,        \* the listing the content endpoint serves
    pc,         \* "idle", "loop" (inside getAllSubmissions), "done"
    op,         \* the operation that runs or has returned last
    fn,         \* the single-page function getAllSubmissions was given
    subject,    \* the subreddit or author of the last listing call
    total,      \* the total of the last getAllSubmissions
    results,    \* its accumulator
    after,      \* its cursor
    ret,        \* the records the last operation returned
    slice,      \* the SliceInfo the last operation returned
    err,        \* the error the last operation returned
    reqs,       \* the requests the running or last operation has sent
    pages,      \* the length of every page the running operation has decoded
    granted,    \* the token the token endpoint has issued last
    lastSent,   \* the requests the last step has sent
    faulty,     \* an endpoint has failed a request of the running operation
    newArgs,    \* the arguments of the last NewReadOnlyRedditClient
    tokAnswer,  \* what the token endpoint answered to the POST of the last step
    getAnswer,  \* what the content endpoint answered to the GET of the last step
    sentAt,     \* the time of the last request since the throttle was set
    synchronized, \* the concurrent callers hold one mutex around every call
    mutex,      \* the caller that holds that mutex, or 0
    threads     \* the concurrent callers: position and locals of each

vars == <<client, now, srv, pc, op, fn, subject, total, results, after,
          ret, slice, err, reqs, pages, granted, lastSent, faulty, newArgs,
          tokAnswer, getAnswer, sentAt, synchronized, mutex, threads>>

\* The variables of the concurrent callers.
raceVars == <<synchronized, mutex, threads>>

Threads == {1, 2}
IdleThread ==
    [pc |-> "idle", calls |-> 0, token |-> NilToken, cookie |-> Nil,
     bearer |-> ""]
NoThreads == [p \in Threads |-> IdleThread]

\* What is wrong with an answer of the token endpoint, whether its body is
\* larger than 1 MiB (and whether the first MiB holds the whole document or
\* cuts it), and the refresh token and the cookie it supplies.
AnswerOfToken(resp) ==
    [fault |-> IF resp.neterr THEN "network"
               ELSE IF resp.status \notin 200..299 THEN "status"
               ELSE IF resp.ctype \notin {"application/json",
                                          "application/json; charset=UTF-8"}
                    THEN "content type"
               ELSE IF resp.body = "garbage" THEN "body"
               ELSE IF resp.access_token = "" THEN "access token"
               ELSE "none",
     oversized |-> IF resp.body = "json-padded" THEN "padded"
                   ELSE IF resp.body = "json-cut" THEN "cut" ELSE "no",
     refresh_token |-> resp.refresh_token,
     edgebucket |-> resp.edgebucket]

NoTokenAnswer ==
    [fault |-> "unasked", oversized |-> "no", refresh_token |-> "",
     edgebucket |-> Nil]

\* What is wrong with an answer of the content endpoint, and whether its
\* body is larger than 1 MiB, with the answer as it was sent.
AnswerOfGet(resp) ==
    [fault |-> IF resp.neterr THEN "network"
               ELSE IF resp.status \notin 200..299 THEN "status"
               ELSE IF resp.ctype = "" THEN "no content type"
               ELSE IF resp.ctype \notin {"application/json",
                                          "application/json; charset=UTF-8"}
                    THEN "content type"
               ELSE IF resp.body = "plain" THEN "encoding"
               ELSE IF resp.body = "gzip-garbage" THEN "body"
               ELSE "none",
     oversized |-> IF resp.body = "gzip-json-padded" THEN "padded"
                   ELSE IF resp.body = "gzip-json-cut" THEN "cut" ELSE "no",
     neterr |-> resp.neterr,
     status |-> resp.status,
     ctype |-> resp.ctype,
     body |-> resp.body]

NoGetAnswer ==
    [fault |-> "unasked", oversized |-> "no", neterr |-> FALSE, status |-> 0,
     ctype |-> "", body |-> ""]

TokenAnswered(rs, resp) ==
    IF Posts(rs) # {} THEN AnswerOfToken(resp) ELSE NoTokenAnswer

GetAnswered(rs, resp) ==
    IF Gets(rs) # {} THEN AnswerOfGet(resp) ELSE NoGetAnswer

\* The time at which a call that started at t returns to client c: the
\* time the throttle let it pass, requests taking no time.
TimeAfter(c, t) ==
    IF c.throttle = NilThrottle THEN t
    ELSE IF c.throttle.last = NoCall THEN t
    ELSE Max(t, c.throttle.last)

NoArgs == [clientID |-> "x", clientSecret |-> "x", userAgent |-> "x"]

Init ==
    /\ client = NilClient
    /\ now = 0
    /\ srv \in SessionServers
    /\ pc = "idle"
    /\ op = "none"
    /\ fn = "SubmissionsTo"
    /\ subject = ""
    /\ total = 0
    /\ results = <<>>
    /\ after = EmptyCursor
    /\ ret = <<>>
    /\ slice = NilSlice
    /\ err = NoErr
    /\ reqs = <<>>
    /\ pages = <<>>
    /\ granted = NilToken
    /\ lastSent = <<>>
    /\ faulty = FALSE
    /\ newArgs = NoArgs
    /\ tokAnswer = NoTokenAnswer
    /\ getAnswer = NoGetAnswer
    /\ sentAt = NoCall
    /\ synchronized = FALSE
    /\ mutex = 0
    /\ threads = NoThreads

\* The token the endpoint issued with answer resp to the request `sent`
\* holds, if it holds one; otherwise the token issued before.
GrantedAfter(sent, resp, t) ==
    IF Len(sent) > 0 /\ sent[1].method = "POST" /\ TokenIssued(resp)
    THEN [AccessToken |-> resp.access_token,
          RefreshToken |-> IF resp.refresh_token # "" THEN resp.refresh_token
                           ELSE IF "refresh_token" \in DOMAIN sent[1].values
                                THEN sent[1].values.refresh_token ELSE "",
          Expiry |-> t + resp.expires_in]
    ELSE granted

\* The time of the last request since the throttle was set, after a call
\* that started at t has sent rs and returned to client c.
SentAfter(c, rs, t) ==
    IF c.throttle = NilThrottle THEN NoCall
    ELSE IF rs = <<>> THEN sentAt
    ELSE TimeAfter(c, t)

\* The content endpoint served the page with this answer.
PageServed(resp) ==
    /\ ~resp.neterr
    /\ resp.status \in 200..299
    /\ resp.ctype \in {"application/json", "application/json; charset=UTF-8"}
    /\ resp.body \in {"gzip-json", "gzip-json-padded"}

\* An endpoint failed one of the requests `rs`, answered by tokResp (the
\* POST) and getResp (the GET).
Failed(rs, tokResp, getResp) ==
    \E i \in 1..Len(rs) :
        \/ rs[i].method = "POST" /\ ~TokenIssued(tokResp)
        \/ rs[i].method = "GET" /\ ~PageServed(getResp)

\* A variant without the test of userAgent, for the sensitivity of C10.
ValidateCredentialsNoUserAgent(id, secret, ua) ==
    IF id = "" THEN ErrClientID
    ELSE IF secret = "" THEN ErrClientSecret
    ELSE NoErr

\* The checks of NewReadOnlyRedditClient on its arguments, lines 67-77.
ValidateCredentials(id, secret, ua) ==
    IF id = "" THEN ErrClientID
    ELSE IF secret = "" THEN ErrClientSecret
    ELSE IF ua = "" THEN ErrUserAgent
    ELSE NoErr

NewClient(id, secret, ua) ==
    [Token |-> NilToken, Cookie |-> Nil, clientID |-> id,
     clientSecret |-> secret, userAgent |-> ua, throttle |-> NilThrottle]

\* NewReadOnlyRedditClient, lines 67-87: the client is built and logs in
\* once the arguments have passed.
Construct(id, secret, ua, resp, t) ==
    IF ValidateCredentials(id, secret, ua) # NoErr
    THEN [client |-> NewClient(id, secret, ua),
          err |-> ValidateCredentials(id, secret, ua), reqs |-> <<>>]
    ELSE LoginAuth(NewClient(id, secret, ua), resp, t)

\* NewReadOnlyRedditClient(clientID, clientSecret, userAgent).
NewReadOnlyRedditClient(id, secret, ua, resp) ==
    \E r \in {Construct(id, secret, ua, resp, now)} :
        /\ client = NilClient
        /\ pc # "loop"
        /\ op' = "New"
        /\ pc' = "done"
        /\ err' = r.err
        /\ reqs' = r.reqs
        /\ client' = IF r.err = NoErr THEN r.client ELSE NilClient
        /\ granted' = GrantedAfter(r.reqs, resp, now)
        /\ ret' = <<>>
        /\ slice' = NilSlice
        /\ pages' = <<>>
        /\ lastSent' = r.reqs
        /\ faulty' = Failed(r.reqs, resp, GoodGetResponse)
        /\ newArgs' = [clientID |-> id, clientSecret |-> secret, userAgent |-> ua]
        /\ tokAnswer' = TokenAnswered(r.reqs, resp)
        /\ getAnswer' = NoGetAnswer
        /\ UNCHANGED <<now, srv, fn, subject, total, results, after, sentAt>>
        /\ UNCHANGED raceVars

\* Time passes between two calls.
Tick ==
    /\ now < MaxTime
    /\ now' = now + 1
    /\ lastSent' = <<>>
    /\ tokAnswer' = NoTokenAnswer
    /\ getAnswer' = NoGetAnswer
    /\ UNCHANGED <<client, srv, pc, op, fn, subject, total, results, after,
                   ret, slice, err, reqs, pages, granted, faulty, newArgs,
                   sentAt>>
    /\ UNCHANGED raceVars

\* Throttle(interval) called by the user between two calls.
Throttle(interval) ==
    /\ client # NilClient
    /\ pc # "loop"
    /\ client' = [client EXCEPT !.throttle = NewThrottle(interval)]
    /\ op' = "Throttle"
    /\ sentAt' = NoCall
    /\ lastSent' = <<>>
    /\ tokAnswer' = NoTokenAnswer
    /\ getAnswer' = NoGetAnswer
    /\ UNCHANGED <<now, srv, pc, fn, subject, total, results, after,
                   ret, slice, err, reqs, pages, granted, faulty, newArgs>>
    /\ UNCHANGED raceVars

\* SubmissionsTo / SubmissionsOf called by the user.
SubmissionsCall(f, subj, params, tokResp, getResp) ==
    \E r \in {IF client = NilClient THEN NilClient
               ELSE Submissions(f, client, subj, params, tokResp, getResp,
                                srv, now)} :
        /\ client # NilClient
        /\ pc # "loop"
        /\ client' = r.client
        /\ err' = r.err
        /\ reqs' = r.reqs
        /\ ret' = r.submissions
        /\ slice' = r.slice
        /\ pages' = IF r.err = NoErr THEN <<Len(r.submissions)>> ELSE <<>>
        /\ granted' = GrantedAfter(r.reqs, tokResp, TimeAfter(r.client, now))
        /\ op' = "Submissions"
        /\ pc' = "done"
        /\ fn' = f
        /\ subject' = subj
        /\ total' = 0
        /\ results' = <<>>
        /\ after' = EmptyCursor
        /\ lastSent' = r.reqs
        /\ faulty' = Failed(r.reqs, tokResp, getResp)
        /\ tokAnswer' = TokenAnswered(r.reqs, tokResp)
        /\ getAnswer' = GetAnswered(r.reqs, getResp)
        /\ now' = TimeAfter(r.client, now)
        /\ sentAt' = SentAfter(r.client, r.reqs, now)
        /\ UNCHANGED <<srv, newArgs>>
        /\ UNCHANGED raceVars

\* getAllSubmissions, line 212: the request is served by a single page.
SinglePage(tot) == tot <= DefaultSliceSize

\* Variants of the test with a slip, for the sensitivity of C3 and C5.
LoopBreakStrict(resultsLen, tot, pageLen) == resultsLen > tot \/ pageLen = 0
LoopBreakNoEmpty(resultsLen, tot, pageLen) == resultsLen >= tot

\* getAllSubmissions, line 237: the loop is left after this page.
LoopBreak(resultsLen, tot, pageLen) == resultsLen >= tot \/ pageLen = 0

\* A variant that goes on from the other cursor, for the sensitivity of C23.
NextCursorBefore(sl) == sl.Before

\* getAllSubmissions, line 241: the cursor of the next page request.
NextCursor(sl) == sl.After

\* A variant that hands out what was collected, for the sensitivity of C27.
FailedPageReturnCollected(res) == res

\* getAllSubmissions, lines 229-231: the records returned when a page fetch
\* has failed.
FailedPageReturn(res) == <<>>

\* AllSubmissionsTo / AllSubmissionsOf called by the user.  With
\* total <= DefaultSliceSize the call is one page request; otherwise the loop
\* is entered with an empty accumulator and an empty cursor.
GetAllSubmissions(f, subj, tot, tokResp, getResp) ==
    \E r \in {IF client = NilClient \/ ~SinglePage(tot) THEN NilClient
               ELSE Submissions(f, client, subj,
                                [Limit |-> tot, After |-> EmptyCursor,
                                 Before |-> EmptyCursor],
                                tokResp, getResp, srv, now)} :
        /\ client # NilClient
        /\ pc # "loop"
        /\ op' = "AllSubmissions"
        /\ fn' = f
        /\ subject' = subj
        /\ total' = tot
        /\ results' = <<>>
        /\ after' = EmptyCursor
        /\ slice' = NilSlice
        /\ IF SinglePage(tot)
           THEN /\ pc' = "done"
                /\ client' = r.client
                /\ err' = r.err
                /\ reqs' = r.reqs
                /\ ret' = r.submissions
                /\ pages' = IF r.err = NoErr THEN <<Len(r.submissions)>> ELSE <<>>
                /\ granted' = GrantedAfter(r.reqs, tokResp, TimeAfter(r.client, now))
                /\ lastSent' = r.reqs
                /\ faulty' = Failed(r.reqs, tokResp, getResp)
                /\ tokAnswer' = TokenAnswered(r.reqs, tokResp)
                /\ getAnswer' = GetAnswered(r.reqs, getResp)
                /\ now' = TimeAfter(r.client, now)
                /\ sentAt' = SentAfter(r.client, r.reqs, now)
           ELSE /\ pc' = "loop"
                /\ reqs' = <<>>
                /\ pages' = <<>>
                /\ ret' = <<>>
                /\ err' = NoErr
                /\ lastSent' = <<>>
                /\ faulty' = FALSE
                /\ tokAnswer' = NoTokenAnswer
                /\ getAnswer' = NoGetAnswer
                /\ UNCHANGED <<client, granted, now, sentAt>>
        /\ UNCHANGED <<srv, newArgs>>
        /\ UNCHANGED raceVars

\* One iteration of the loop of getAllSubmissions.
LoopIteration(tokResp, getResp) ==
    \E r \in {IF pc # "loop" THEN NilClient
               ELSE Submissions(fn, client, subject,
                                [Limit |-> DefaultSliceSize, After |-> after,
                                 Before |-> EmptyCursor],
                                tokResp, getResp, srv, now)} :
        /\ pc = "loop"
        /\ client' = r.client
        /\ reqs' = reqs \o r.reqs
        /\ granted' = GrantedAfter(r.reqs, tokResp, TimeAfter(r.client, now))
        /\ err' = r.err
        /\ IF r.err # NoErr
           THEN /\ pc' = "done"
                /\ ret' = FailedPageReturn(results)
                /\ UNCHANGED <<results, after, pages>>
           ELSE /\ results' = results \o r.submissions
                /\ pages' = Append(pages, Len(r.submissions))
                /\ IF LoopBreak(Len(results) + Len(r.submissions), total,
                                Len(r.submissions))
                   THEN /\ pc' = "done"
                        /\ ret' = results \o r.submissions
                        /\ UNCHANGED after
                   ELSE /\ pc' = "loop"
                        /\ ret' = <<>>
                        /\ after' = NextCursor(r.slice)
        /\ lastSent' = r.reqs
        /\ faulty' = (faulty \/ Failed(r.reqs, tokResp, getResp))
        /\ tokAnswer' = TokenAnswered(r.reqs, tokResp)
        /\ getAnswer' = GetAnswered(r.reqs, getResp)
        /\ now' = TimeAfter(r.client, now)
        /\ sentAt' = SentAfter(r.client, r.reqs, now)
        /\ UNCHANGED <<srv, op, fn, subject, total, slice, newArgs>>
        /\ UNCHANGED raceVars

\* A token answer is drawn only when the call asks the token endpoint, a
\* content answer only when it sends the GET.
AsksToken(subj) ==
    /\ subj # ""
    /\ client # NilClient
    /\ TokenExpiring(client, WaitUntil(client, now))
    /\ client.Token.RefreshToken # ""

TokenAnswers(subj) ==
    IF AsksToken(subj) THEN TokenResponses ELSE {GoodTokenResponse}

GetAnswers(subj, tokResp, answers) ==
    IF /\ subj # ""
       /\ client # NilClient
       /\ TokenExpiring(client, WaitUntil(client, now)) =>
              (AsksToken(subj) /\ TokenIssued(tokResp))
    THEN answers ELSE {GoodGetResponse}

\* The listing function and its subject.
Calls == { <<"SubmissionsTo", "">>, <<"SubmissionsOf", "">>,
           <<"SubmissionsTo", "x">>, <<"SubmissionsOf", "x">> }
SessionCalls == { <<"SubmissionsTo", "">>, <<"SubmissionsOf", "">>,
                  <<"SubmissionsTo", "x">> }

Next ==
    \/ \E id \in Strings, secret \in Strings, ua \in Strings :
         \E resp \in (IF id # "" /\ secret # "" /\ ua # ""
                      THEN TokenResponses ELSE {GoodTokenResponse}) :
           NewReadOnlyRedditClient(id, secret, ua, resp)
    \/ Tick
    \/ \E call \in SessionCalls, params \in ParamsIn :
         \E tokResp \in TokenAnswers(call[2]) :
           \E getResp \in GetAnswers(call[2], tokResp, SessionGetResponses) :
             SubmissionsCall(call[1], call[2], params, tokResp, getResp)
    \/ \E call \in SessionCalls, tot \in SessionTotals :
         \E tokResp \in TokenAnswers(IF SinglePage(tot) THEN call[2] ELSE "") :
           \E getResp \in GetAnswers(IF SinglePage(tot) THEN call[2] ELSE "",
                                     tokResp, SessionGetResponses) :
             GetAllSubmissions(call[1], call[2], tot, tokResp, getResp)
    \/ \E tokResp \in TokenAnswers(subject) :
         \E getResp \in GetAnswers(subject, tokResp, SessionGetResponses) :
           LoopIteration(tokResp, getResp)

\* A session from the construction of the client on, against a short listing.
Spec == Init /\ [][Next]_vars

\* A client that logged in to a token valid for an hour, as reddit issues
\* them, paginating listings of every size.
LongLivedToken == [AccessToken |-> "a1", RefreshToken |-> "", Expiry |-> 3600]

InitPaging ==
    /\ client = [Token |-> LongLivedToken, Cookie |-> "e1", clientID |-> "x",
                 clientSecret |-> "x", userAgent |-> "x",
                 throttle |-> NilThrottle]
    /\ now = 0
    /\ srv \in Servers
    /\ pc = "idle"
    /\ op = "none"
    /\ fn = "SubmissionsTo"
    /\ subject = ""
    /\ total = 0
    /\ results = <<>>
    /\ after = EmptyCursor
    /\ ret = <<>>
    /\ slice = NilSlice
    /\ err = NoErr
    /\ reqs = <<>>
    /\ pages = <<>>
    /\ granted = LongLivedToken
    /\ lastSent = <<>>
    /\ faulty = FALSE
    /\ newArgs = NoArgs
    /\ tokAnswer = NoTokenAnswer
    /\ getAnswer = NoGetAnswer
    /\ sentAt = NoCall
    /\ synchronized = FALSE
    /\ mutex = 0
    /\ threads = NoThreads

NextPaging ==
    \/ \E call \in Calls, tot \in Totals :
         \E getResp \in GetAnswers(IF SinglePage(tot) THEN call[2] ELSE "",
                                   GoodTokenResponse, GetResponses) :
           GetAllSubmissions(call[1], call[2], tot, GoodTokenResponse, getResp)
    \/ \E getResp \in GetAnswers(subject, GoodTokenResponse, GetResponses) :
         LoopIteration(GoodTokenResponse, getResp)

SpecPaging == InitPaging /\ [][NextPaging]_vars

\* A client that has logged in and sets its throttle: the calls wait on the
\* limiter, and the token comes within the margin of its expiry as the time
\* passes.
ShortLivedToken ==
    [AccessToken |-> "a1", RefreshToken |-> "r1", Expiry |-> MaxExpiresIn]

LoggedInClient ==
    [Token |-> ShortLivedToken, Cookie |-> "e1", clientID |-> "x",
     clientSecret |-> "x", userAgent |-> "x", throttle |-> NilThrottle]

Intervals == 0..MaxInterval

ThrottledTokenResponses ==
    { GoodTokenResponse,
      [GoodTokenResponse EXCEPT !.access_token = "a2", !.refresh_token = "",
                                !.edgebucket = Nil],
      [GoodTokenResponse EXCEPT !.neterr = TRUE] }

ThrottledGetResponses ==
    { GoodGetResponse, [GoodGetResponse EXCEPT !.status = 404] }

InitThrottled ==
    /\ client = LoggedInClient
    /\ now = 0
    /\ srv \in SessionServers
    /\ pc = "idle"
    /\ op = "none"
    /\ fn = "SubmissionsTo"
    /\ subject = ""
    /\ total = 0
    /\ results = <<>>
    /\ after = EmptyCursor
    /\ ret = <<>>
    /\ slice = NilSlice
    /\ err = NoErr
    /\ reqs = <<>>
    /\ pages = <<>>
    /\ granted = ShortLivedToken
    /\ lastSent = <<>>
    /\ faulty = FALSE
    /\ newArgs = NoArgs
    /\ tokAnswer = NoTokenAnswer
    /\ getAnswer = NoGetAnswer
    /\ sentAt = NoCall
    /\ synchronized = FALSE
    /\ mutex = 0
    /\ threads = NoThreads

NextThrottled ==
    \/ \E d \in Intervals : Throttle(d)
    \/ Tick
    \/ /\ now <= MaxTime
       /\ \E call \in SessionCalls, params \in ParamsIn :
            \E tokResp \in (IF AsksToken(call[2]) THEN ThrottledTokenResponses
                            ELSE {GoodTokenResponse}) :
              \E getResp \in GetAnswers(call[2], tokResp, ThrottledGetResponses) :
                SubmissionsCall(call[1], call[2], params, tokResp, getResp)
    \/ /\ now <= MaxTime
       /\ \E call \in SessionCalls :
            GetAllSubmissions(call[1], call[2], DefaultSliceSize + 1,
                              GoodTokenResponse, GoodGetResponse)
    \/ \E tokResp \in (IF AsksToken(subject) THEN ThrottledTokenResponses
                        ELSE {GoodTokenResponse}) :
         \E getResp \in GetAnswers(subject, tokResp, ThrottledGetResponses) :
           LoopIteration(tokResp, getResp)

SpecThrottled == InitThrottled /\ [][NextThrottled]_vars

\* A logged-in client making single-page calls against a listing of three
\* records, the endpoints answering in every way, bodies larger than 1 MiB
\* included.
CallServers == [N : {3}, endCursor : {"null", "last"}, cap : {ServerMaxLimit}]

CallParams ==
    ParamsIn \cup { [Limit |-> 2, After |-> 1, Before |-> EmptyCursor] }

CallTokenResponses ==
    { GoodTokenResponse,
      [GoodTokenResponse EXCEPT !.body = "json-padded"],
      [GoodTokenResponse EXCEPT !.body = "json-cut"] }

CallGetResponses ==
    GetResponses
    \cup { [GoodGetResponse EXCEPT !.body = "gzip-json-padded"],
           [GoodGetResponse EXCEPT !.body = "gzip-json-cut"],
           [GoodGetResponse EXCEPT !.status = 500, !.ctype = "text/html",
                                   !.body = "plain"],
           [GoodGetResponse EXCEPT !.ctype = "text/html", !.body = "plain"],
           [GoodGetResponse EXCEPT !.ctype = "", !.body = "gzip-garbage"] }

InitCalls ==
    /\ client = LoggedInClient
    /\ now = 0
    /\ srv \in CallServers
    /\ pc = "idle"
    /\ op = "none"
    /\ fn = "SubmissionsTo"
    /\ subject = ""
    /\ total = 0
    /\ results = <<>>
    /\ after = EmptyCursor
    /\ ret = <<>>
    /\ slice = NilSlice
    /\ err = NoErr
    /\ reqs = <<>>
    /\ pages = <<>>
    /\ granted = ShortLivedToken
    /\ lastSent = <<>>
    /\ faulty = FALSE
    /\ newArgs = NoArgs
    /\ tokAnswer = NoTokenAnswer
    /\ getAnswer = NoGetAnswer
    /\ sentAt = NoCall
    /\ synchronized = FALSE
    /\ mutex = 0
    /\ threads = NoThreads

NextCalls ==
    \/ Tick
    \/ \E call \in Calls, params \in CallParams :
         \E tokResp \in (IF AsksToken(call[2]) THEN CallTokenResponses
                         ELSE {GoodTokenResponse}) :
           \E getResp \in GetAnswers(call[2], tokResp, CallGetResponses) :
             SubmissionsCall(call[1], call[2], params, tokResp, getResp)

SpecCalls == InitCalls /\ [][NextCalls]_vars

\* A client with an hour-long token paginating against servers that return
\* as few records a page as they like and whatever cursor they like.  Every
\* page fetch returns, and the caller runs on: the iteration of the loop is
\* weakly fair.
StingyServers ==
    [N : {1, 3 * DefaultSliceSize}, endCursor : {"null", "last", "stuck"},
     cap : {1, 2, ServerMaxLimit}]

StingyTotals == {DefaultSliceSize + 1, DefaultSliceSize + 2}

InitStingy ==
    /\ client = [LoggedInClient EXCEPT !.Token = LongLivedToken]
    /\ now = 0
    /\ srv \in StingyServers
    /\ pc = "idle"
    /\ op = "none"
    /\ fn = "SubmissionsTo"
    /\ subject = ""
    /\ total = 0
    /\ results = <<>>
    /\ after = EmptyCursor
    /\ ret = <<>>
    /\ slice = NilSlice
    /\ err = NoErr
    /\ reqs = <<>>
    /\ pages = <<>>
    /\ granted = LongLivedToken
    /\ lastSent = <<>>
    /\ faulty = FALSE
    /\ newArgs = NoArgs
    /\ tokAnswer = NoTokenAnswer
    /\ getAnswer = NoGetAnswer
    /\ sentAt = NoCall
    /\ synchronized = FALSE
    /\ mutex = 0
    /\ threads = NoThreads

StingyIteration ==
    \E getResp \in ThrottledGetResponses :
        LoopIteration(GoodTokenResponse, getResp)

NextStingy ==
    \/ \E f \in Fns, tot \in StingyTotals :
         GetAllSubmissions(f, "x", tot, GoodTokenResponse, GoodGetResponse)
    \/ StingyIteration

SpecStingy == InitStingy /\ [][NextStingy]_vars /\ WF_vars(StingyIteration)

\* ------------------------------------------------- concurrent callers
\* Two callers run doGetRequest on one client, statement by statement.  The
\* client has no lock of its own; with `synchronized` the callers hold one
\* mutex of theirs from before the call until it has returned.  No time
\* passes: the stored token is within the margin of its expiry once.
sessionVars == <<now, srv, pc, op, fn, subject, total, results, after, ret,
                 slice, err, pages, granted, faulty, newArgs, tokAnswer,
                 getAnswer, sentAt>>

ExpiringToken == [AccessToken |-> "a0", RefreshToken |-> "r0", Expiry |-> 0]

RaceTokenResponses ==
    { GoodTokenResponse,
      [GoodTokenResponse EXCEPT !.access_token = "a2", !.refresh_token = "r2",
                                !.edgebucket = "e2"] }

InitRace ==
    /\ client = [LoggedInClient EXCEPT !.Token = ExpiringToken, !.Cookie = "e0"]
    /\ now = 0
    /\ srv \in SessionServers
    /\ pc = "idle"
    /\ op = "none"
    /\ fn = "SubmissionsTo"
    /\ subject = "x"
    /\ total = 0
    /\ results = <<>>
    /\ after = EmptyCursor
    /\ ret = <<>>
    /\ slice = NilSlice
    /\ err = NoErr
    /\ reqs = <<>>
    /\ pages = <<>>
    /\ granted = ExpiringToken
    /\ lastSent = <<>>
    /\ faulty = FALSE
    /\ newArgs = NoArgs
    /\ tokAnswer = NoTokenAnswer
    /\ getAnswer = NoGetAnswer
    /\ sentAt = NoCall
    /\ synchronized \in BOOLEAN
    /\ mutex = 0
    /\ threads = NoThreads

\* Caller p calls doGetRequest, taking the mutex first if the callers
\* synchronize.
CallerEnters(p) ==
    /\ threads[p].pc \in {"idle", "done"}
    /\ threads[p].calls < MaxCalls
    /\ synchronized => mutex = 0
    /\ mutex' = IF synchronized THEN p ELSE 0
    /\ threads' = [threads EXCEPT ![p] = [IdleThread EXCEPT
                        !.pc = "check", !.calls = threads[p].calls + 1]]
    /\ lastSent' = <<>>
    /\ UNCHANGED <<client, reqs, synchronized>>
    /\ UNCHANGED sessionVars

\* Line 260: caller p reads c.Token.Expiry.
CheckExpiry(p) ==
    /\ threads[p].pc = "check"
    /\ threads' = [threads EXCEPT ![p].pc =
                        IF TokenExpiring(client, now) THEN "refresh"
                        ELSE "bearer"]
    /\ lastSent' = <<>>
    /\ UNCHANGED <<client, reqs, synchronized, mutex>>
    /\ UNCHANGED sessionVars

\* refreshLoginAuth, lines 340-351: caller p reads c.Token.RefreshToken and
\* posts it; the token and the cookie of the answer are in its locals.
RequestToken(p, resp) ==
    \E r \in {RetrieveTokenAndCookie(RefreshValues(client), resp, now)} :
        /\ threads[p].pc = "refresh"
        /\ IF client.Token.RefreshToken = ""
           THEN /\ threads' = [threads EXCEPT ![p].pc = "done"]
                /\ mutex' = 0
                /\ lastSent' = <<>>
                /\ UNCHANGED reqs
           ELSE /\ reqs' = Append(reqs, PostRequest(RefreshValues(client)))
                /\ lastSent' = <<PostRequest(RefreshValues(client))>>
                /\ IF r.err # NoErr
                   THEN /\ threads' = [threads EXCEPT ![p].pc = "done"]
                        /\ mutex' = 0
                   ELSE /\ threads' = [threads EXCEPT ![p].pc = "storeToken",
                                                      ![p].token = r.token,
                                                      ![p].cookie = r.cookie]
                        /\ UNCHANGED mutex
        /\ UNCHANGED <<client, synchronized>>
        /\ UNCHANGED sessionVars

\* A variant that drops the new token, for the sensitivity of C19.
AssignTokenDropped(p) ==
    /\ threads[p].pc = "storeToken"
    /\ threads' = [threads EXCEPT ![p].pc = "storeCookie"]
    /\ lastSent' = <<>>
    /\ UNCHANGED <<client, reqs, synchronized, mutex>>
    /\ UNCHANGED sessionVars

\* Line 353: c.Token = token.
AssignToken(p) ==
    /\ threads[p].pc = "storeToken"
    /\ client' = [client EXCEPT !.Token = threads[p].token]
    /\ threads' = [threads EXCEPT ![p].pc = "storeCookie"]
    /\ lastSent' = <<>>
    /\ UNCHANGED <<reqs, synchronized, mutex>>
    /\ UNCHANGED sessionVars

\* Line 354: c.Cookie = cookie.
AssignCookie(p) ==
    /\ threads[p].pc = "storeCookie"
    /\ client' = [client EXCEPT !.Cookie = threads[p].cookie]
    /\ threads' = [threads EXCEPT ![p].pc = "bearer"]
    /\ lastSent' = <<>>
    /\ UNCHANGED <<reqs, synchronized, mutex>>
    /\ UNCHANGED sessionVars

\* Line 276: the Authorization header is set from c.Token.AccessToken.
SetAuthorization(p) ==
    /\ threads[p].pc = "bearer"
    /\ threads' = [threads EXCEPT ![p].pc = "send",
                                  ![p].bearer = client.Token.AccessToken]
    /\ lastSent' = <<>>
    /\ UNCHANGED <<client, reqs, synchronized, mutex>>
    /\ UNCHANGED sessionVars

\* Lines 277-285: the Cookie header is set from c.Cookie and the GET is
\* sent; the call returns and the caller gives the mutex back.
SetCookieAndDo(p) ==
    /\ threads[p].pc = "send"
    /\ reqs' = Append(reqs, [method |-> "GET", values |-> <<>>,
                             bearer |-> threads[p].bearer,
                             cookie |-> client.Cookie])
    /\ lastSent' = <<[method |-> "GET", values |-> <<>>,
                      bearer |-> threads[p].bearer, cookie |-> client.Cookie]>>
    /\ threads' = [threads EXCEPT ![p].pc = "done"]
    /\ mutex' = 0
    /\ UNCHANGED <<client, synchronized>>
    /\ UNCHANGED sessionVars

NextRace ==
    \E p \in Threads :
        \/ CallerEnters(p)
        \/ CheckExpiry(p)
        \/ \E resp \in RaceTokenResponses : RequestToken(p, resp)
        \/ AssignToken(p)
        \/ AssignCookie(p)
        \/ SetAuthorization(p)
        \/ SetCookieAndDo(p)

SpecRace == InitRace /\ [][NextRace]_vars

\* ------------------------------------------------------------- properties
Listing(n) == [i \in 1..n |-> i]
CeilDiv(a, b) == (a + b - 1) \div b

\* AllSubmissionsTo / AllSubmissionsOf has returned, every request of it
\* having been served.
AllReturned ==
    /\ op = "AllSubmissions"
    /\ pc = "done"
    /\ subject # ""
    /\ ~faulty

\* C1: AllSubmissionsOf/AllSubmissionsTo with total greater than the number N
\* of records of the listing returns exactly the N records, each once and in
\* order, with no error.
C1_ShortListingReturnedOnce ==
    (AllReturned /\ total > srv.N) => (err = NoErr /\ ret = Listing(srv.N))

\* C2: for total > pageSize the concatenation has length total when the
\* listing holds at least total records, and is shorter only when the listing
\* holds fewer than total records.
C2_LengthIsTotal ==
    (AllReturned /\ total > DefaultSliceSize) =>
        /\ srv.N >= total => Len(ret) = total
        /\ Len(ret) < total => srv.N < total

\* C3: for total > pageSize against a listing that holds at least total
\* records the loop sends exactly ceil(total/pageSize) page requests, each
\* with limit = pageSize, and it sends none once the accumulator has reached
\* total.
C3_CeilRequests ==
    /\ (AllReturned /\ total > DefaultSliceSize /\ srv.N >= total) =>
          /\ Cardinality(Gets(reqs)) = CeilDiv(total, DefaultSliceSize)
          /\ \A i \in Gets(reqs) :
                "limit" \in DOMAIN reqs[i].values
                /\ reqs[i].values.limit = DefaultSliceSize
    /\ (op = "AllSubmissions" /\ pc = "loop") => Len(results) < total

C3_Witness ==
    /\ AllReturned
    /\ total = 250
    /\ srv.N >= total
    /\ Cardinality(Gets(reqs)) = 3

\* C4: for total <= pageSize exactly one page request is sent, it carries
\* limit = total, and the records of that page are returned unchanged.
C4_OneRequestLimitTotal ==
    (AllReturned /\ total <= DefaultSliceSize) =>
        /\ Len(reqs) = 1
        /\ reqs[1].method = "GET"
        /\ "limit" \in DOMAIN reqs[1].values
        /\ reqs[1].values.limit = total
        /\ ret = ServerPage(srv, reqs[1].values).children

\* C5: the pagination stops as soon as a page comes back with zero records:
\* an empty page is the last page of the operation, which has returned what
\* it collected without error.
C5_EmptyPageStops ==
    (op = "AllSubmissions") =>
        \A i \in 1..Len(pages) :
            pages[i] = 0 =>
                /\ i = Len(pages)
                /\ pc = "done"
                /\ err = NoErr
                /\ ret = results
                /\ Cardinality(Gets(reqs)) = Len(pages)

C5_Witness ==
    /\ op = "AllSubmissions"
    /\ total > DefaultSliceSize
    /\ Len(pages) = 3
    /\ pages[3] = 0
    /\ Len(ret) = 180

\* The token is expiring and the client holds no refresh token.
Unrefreshable(c, t) ==
    /\ c # NilClient
    /\ c.Token.RefreshToken = ""
    /\ c.Token.Expiry < t + SafetyMargin

\* A step of a listing call that has reached doGetRequest.
ReachesTokenCheck ==
    /\ client # NilClient
    /\ now' = now
    /\ subject' # ""
    /\ pc = "loop" \/ pc' = "done"

\* C6: a call refreshes only when the token issued last, which is the stored
\* one, is within the safety margin of its expiry, and it refreshes once; so
\* after a successful refresh no call refreshes again until the refreshed
\* token itself comes within the margin.  A call that finds the stored token
\* past the margin, with a refresh token, does refresh.
C6_RefreshOnlyWithinMargin ==
    [][/\ (client # NilClient /\ Posts(lastSent') # {}) =>
             /\ granted.Expiry <= now + SafetyMargin
             /\ client.Token = granted
             /\ Cardinality(Posts(lastSent')) = 1
       /\ (ReachesTokenCheck /\ granted.Expiry < now + SafetyMargin
            /\ granted.RefreshToken # "") =>
             Cardinality(Posts(lastSent')) = 1]_vars

C6_Witness ==
    /\ op = "AllSubmissions"
    /\ pc = "done"
    /\ err = NoErr
    /\ Len(reqs) = 3
    /\ reqs[1].method = "POST"
    /\ reqs[2].method = "GET"
    /\ reqs[3].method = "GET"
    /\ reqs[3].bearer = granted.AccessToken

\* C7: the Unrefreshable state is terminal: from it the client stays
\* Unrefreshable, no step sends a request, and every call that returns fails,
\* with the no-refresh-token error unless its arguments were rejected first.
C7_UnrefreshableIsTerminal ==
    [][Unrefreshable(client, now) =>
          /\ Unrefreshable(client', now')
          /\ lastSent' = <<>>
          /\ (now' = now /\ pc' = "done") =>
                /\ err' # NoErr
                /\ subject' # "" => err' = ErrNoRefreshToken]_vars

C7_Witness ==
    /\ Unrefreshable(client, now)
    /\ pc = "done"
    /\ err = ErrNoRefreshToken
    /\ lastSent = <<>>
    /\ now > 0

\* C8: a refresh attempted while the stored refresh token is empty fails with
\* the no-refresh-token error, sends nothing to the token endpoint and leaves
\* token and cookie as they were; and that error is returned in no other case.
C8_EmptyRefreshTokenNoRequest ==
    [][/\ (Unrefreshable(client, now) /\ now' = now /\ pc' = "done" /\ subject' # "") =>
             /\ err' = ErrNoRefreshToken
             /\ Posts(lastSent') = {}
             /\ client'.Token = client.Token
             /\ client'.Cookie = client.Cookie
       /\ (err' = ErrNoRefreshToken /\ client # NilClient) =>
             /\ client.Token.RefreshToken = ""
             /\ Posts(reqs') = Posts(IF pc = "loop" THEN reqs ELSE <<>>)
             /\ client' = client]_vars

C8_Witness ==
    /\ op = "Submissions"
    /\ err = ErrNoRefreshToken
    /\ client.Token.RefreshToken = ""
    /\ client.Cookie # Nil
    /\ reqs = <<>>

\* C9: when the login request fails, the construction fails: no client is
\* returned, so no token or cookie is stored; a client exists only once the
\* token endpoint has issued a token.
C9_FailedLoginNoClient ==
    /\ granted = NilToken => client = NilClient
    /\ (op = "New" /\ faulty) => (client = NilClient /\ err # NoErr)

C9_Witness ==
    /\ op = "New"
    /\ faulty
    /\ err = ErrTokenStatus
    /\ client = NilClient
    /\ Len(reqs) = 1

\* C10: constructing a client with an empty clientID, clientSecret or
\* userAgent fails with the validation error of that argument and sends no
\* request.
C10_EmptyCredentialNoNetwork ==
    (op = "New" /\ (newArgs.clientID = "" \/ newArgs.clientSecret = ""
                    \/ newArgs.userAgent = "")) =>
        /\ err \in {ErrClientID, ErrClientSecret, ErrUserAgent}
        /\ newArgs.clientID # "" => err # ErrClientID
        /\ reqs = <<>>
        /\ lastSent = <<>>
        /\ client = NilClient

C10_Witness ==
    /\ op = "New"
    /\ newArgs.clientID # ""
    /\ newArgs.clientSecret # ""
    /\ newArgs.userAgent = ""
    /\ err = ErrUserAgent
    /\ reqs = <<>>

\* C11: token and cookie are replaced together and only by a successful
\* authentication: a step whose token request fails, for whatever reason,
\* leaves the stored token and cookie as they were and returns the error; a
\* step that changes either of them has been issued a token, and stores that
\* token and the cookie of the same answer.
C11_FailedRefreshKeepsSession ==
    [][/\ (client # NilClient /\ tokAnswer'.fault \notin {"unasked", "none"}) =>
             /\ client'.Token = client.Token
             /\ client'.Cookie = client.Cookie
             /\ err' # NoErr
       /\ (client # NilClient
            /\ (client'.Token # client.Token \/ client'.Cookie # client.Cookie)) =>
             /\ tokAnswer'.fault = "none"
             /\ client'.Token = granted'
             /\ client'.Cookie = tokAnswer'.edgebucket]_vars

C11_Witness ==
    /\ client # NilClient
    /\ tokAnswer.fault = "access token"
    /\ err = ErrMissingAccessToken
    /\ Posts(lastSent) # {}
    /\ lastSent[1].values.grant_type = "refresh_token"
    /\ client.Token = granted
    /\ client.Token.AccessToken # ""

\* C12: when the answer to a refresh grant omits the refresh token, the
\* token stored after the refresh carries the refresh token sent with the
\* request; when the answer supplies one, that one is stored.
C12_RefreshTokenRetained ==
    [][(client # NilClient /\ Posts(lastSent') # {} /\ tokAnswer'.fault = "none") =>
          /\ lastSent'[1].values.grant_type = "refresh_token"
          /\ lastSent'[1].values.refresh_token = client.Token.RefreshToken
          /\ client'.Token.RefreshToken =
                IF tokAnswer'.refresh_token = ""
                THEN lastSent'[1].values.refresh_token
                ELSE tokAnswer'.refresh_token]_vars

C12_Witness ==
    /\ client # NilClient
    /\ Posts(lastSent) # {}
    /\ lastSent[1].values.grant_type = "refresh_token"
    /\ tokAnswer.fault = "none"
    /\ tokAnswer.refresh_token = ""
    /\ client.Token.AccessToken = "a2"
    /\ client.Token.RefreshToken = "r1"
    /\ lastSent[1].values.refresh_token = "r1"

\* C20: a call that reaches the token check refreshes before its request
\* exactly when now + 5 seconds >= expiry, the boundary expiry = now + 5
\* seconds included.
C20_ExpiringAtBoundary ==
    [][(ReachesTokenCheck /\ client.Token.RefreshToken # "") =>
          (Posts(lastSent') # {} <=> now + SafetyMargin >= client.Token.Expiry)]_vars

\* The times at which the requests rs of a step that returns at t were
\* sent.  Requests take no time in this model: in the program a request
\* follows the one before it in the same call by the round trip of that one,
\* which the throttle does not bound from below.
SendTimes(rs, t) == [i \in 1..Len(rs) |-> t]

\* The times of the last request before a step and of the requests of the
\* step.
RequestTimes(before, rs, t) ==
    (IF before = NoCall THEN <<>> ELSE <<before>>) \o SendTimes(rs, t)

\* Every two consecutive times of the sequence are at least d apart.
Apart(times, d) == \A i \in 2..Len(times) : times[i] - times[i - 1] >= d

\* C13: with a throttle interval d > 0 set, any two consecutive requests of
\* the client, content GETs and refresh POSTs alike, are at least d apart.
C13_RequestsThrottled ==
    [][(client # NilClient /\ client.throttle # NilThrottle) =>
          Apart(RequestTimes(sentAt, lastSent', now'), client.throttle.interval)]_vars

\* C14: an answer of the content endpoint with a 2xx status and a content
\* type other than application/json fails the call with the content type
\* error, and no records and no cursors are returned; an answer without a
\* content type fails it with the error of the media type parser.
C14_WrongContentTypeFails ==
    /\ getAnswer.fault = "content type" =>
          (err = ErrContentType /\ ret = <<>> /\ slice = NilSlice)
    /\ getAnswer.fault = "no content type" =>
          (err = ErrMime /\ ret = <<>> /\ slice = NilSlice)

C14_Witness ==
    /\ op = "Submissions"
    /\ getAnswer.fault = "content type"
    /\ err = ErrContentType
    /\ Cardinality(Gets(reqs)) = 1
    /\ ret = <<>>

\* C15: a body larger than 1 MiB, from the content endpoint or the token
\* endpoint, is a hard failure: the operation returns an error.
C15_OversizedBodyFails ==
    (getAnswer.oversized # "no" \/ tokAnswer.oversized # "no") => err # NoErr

\* C16: a single-page call sends at most one GET, and when the content
\* endpoint fails that GET the call returns the error, with no records,
\* having sent the GET once.
C16_NoRetry ==
    op = "Submissions" =>
        /\ Cardinality(Gets(reqs)) <= 1
        /\ getAnswer.fault \notin {"unasked", "none"} =>
              /\ err # NoErr
              /\ Cardinality(Gets(reqs)) = 1
              /\ ret = <<>>
              /\ slice = NilSlice

C16_Witness ==
    /\ op = "Submissions"
    /\ getAnswer.fault = "network"
    /\ err = ErrTransport
    /\ Cardinality(Gets(reqs)) = 1

\* C17: SubmissionsTo with an empty subreddit and SubmissionsOf with an empty
\* author fail with the validation error before anything else: the throttle
\* is not waited on, the token is neither checked nor refreshed, and nothing
\* is sent.
C17_EmptySubjectFailsFirst ==
    [][(client # NilClient /\ op' = "Submissions" /\ subject' = "") =>
          /\ err' = IF fn' = "SubmissionsTo" THEN ErrSubreddit ELSE ErrAuthor
          /\ lastSent' = <<>>
          /\ reqs' = <<>>
          /\ client' = client
          /\ ret' = <<>>
          /\ slice' = NilSlice]_vars

C17_Witness ==
    /\ op = "Submissions"
    /\ subject = ""
    /\ fn = "SubmissionsOf"
    /\ err = ErrAuthor
    /\ client.throttle # NilThrottle
    /\ client.throttle.last # NoCall
    /\ now >= client.throttle.last + client.throttle.interval
    /\ TokenExpiring(client, now)
    /\ reqs = <<>>

\* The listing envelope the content endpoint sent in answer to the last
\* request of the operation.
Envelope == ServerPage(srv, reqs[Len(reqs)].values)

\* C18: a successful SubmissionsTo/SubmissionsOf returns one record per child
\* of the envelope, in the order of the envelope, and the cursor pair of the
\* envelope, an absent cursor as the empty string.
C18_RecordsAndCursors ==
    (op = "Submissions" /\ err = NoErr) =>
        /\ Len(reqs) > 0
        /\ ret = Envelope.children
        /\ slice = [Before |-> IF Envelope.before = JsonNull THEN EmptyCursor
                               ELSE Envelope.before,
                    After |-> IF Envelope.after = JsonNull THEN EmptyCursor
                              ELSE Envelope.after]

C18_Witness ==
    /\ op = "Submissions"
    /\ err = NoErr
    /\ ret = <<2>>
    /\ slice = [Before |-> 2, After |-> 2]

\* The access token and the cookie of one answer of the token endpoint, or
\* of the login.
IssuedTogether ==
    { <<"a0", "e0">> }
    \cup { <<resp.access_token, resp.edgebucket>> : resp \in RaceTokenResponses }

\* C19: two callers of one client that hold one mutex around the whole of
\* every call refresh once for one crossing of the expiry, and each of their
\* requests carries the access token and the cookie of one answer.  Without
\* the mutex both read the same expiring token and each refreshes, and a
\* request carries the token of one answer with the cookie of another.
C19_MutexExcludesRace ==
    synchronized =>
        /\ Cardinality(Posts(reqs)) <= 1
        /\ \A i \in Gets(reqs) :
              <<reqs[i].bearer, reqs[i].cookie>> \in IssuedTogether

C19_Witness ==
    /\ ~synchronized
    /\ Cardinality(Posts(reqs)) = 2
    /\ \A i \in Posts(reqs) : reqs[i].values.refresh_token = "r0"
    /\ \E i \in Gets(reqs) :
          <<reqs[i].bearer, reqs[i].cookie>> \notin IssuedTogether

\* C21: within a call the throttle is waited on first, the token is tested
\* at the time the wait returns, and the GET comes last: a refresh is sent
\* exactly when the token is within the margin at that time, it precedes the
\* GET, the GET carries the access token and the cookie stored by it, and
\* when it fails the call returns the error and sends no GET.
C21_WaitCheckGet ==
    [][(client # NilClient /\ lastSent' # <<>>) =>
          /\ \A i \in Posts(lastSent'), j \in Gets(lastSent') : i < j
          /\ Posts(lastSent') # {} <=>
                /\ client.Token.Expiry < now' + SafetyMargin
                /\ client.Token.RefreshToken # ""
          /\ \A j \in Gets(lastSent') :
                /\ lastSent'[j].bearer = client'.Token.AccessToken
                /\ lastSent'[j].cookie = client'.Cookie
                /\ client'.Token = granted'
          /\ tokAnswer'.fault \notin {"unasked", "none"} =>
                (Gets(lastSent') = {} /\ err' # NoErr /\ client'.Token = client.Token)
          /\ client.throttle # NilThrottle =>
                (client'.throttle.last = now' /\ now' >= now)]_vars

C21_Witness ==
    /\ client # NilClient
    /\ client.throttle # NilThrottle
    /\ client.throttle.last = now
    /\ now > MaxTime
    /\ Len(lastSent) = 2
    /\ lastSent[1].method = "POST"
    /\ lastSent[2].method = "GET"
    /\ lastSent[2].bearer = "a2"
    /\ client.Token.AccessToken = "a2"

\* C22: the answer of the content endpoint is validated status first, then
\* content type, then body: a non-2xx answer is reported as the status error
\* whatever its content type and body, a 2xx answer with a wrong content
\* type as the content type error whatever its body, and an error of the
\* body is reported only for an answer whose status and content type passed.
C22_StatusTypeBody ==
    (getAnswer.fault # "unasked" /\ ~getAnswer.neterr) =>
        /\ getAnswer.status \notin 200..299 => err = ErrGetStatus
        /\ (getAnswer.status \in 200..299 /\ getAnswer.ctype = "") =>
              err = ErrMime
        /\ (getAnswer.status \in 200..299 /\ getAnswer.ctype = "text/html") =>
              err = ErrContentType
        /\ err \in {ErrGzip, ErrJSON} =>
              /\ getAnswer.status \in 200..299
              /\ getAnswer.ctype = "application/json; charset=UTF-8"
              /\ getAnswer.body # "gzip-json"

C22_Witness ==
    /\ op = "Submissions"
    /\ getAnswer.status = 500
    /\ getAnswer.ctype = "text/html"
    /\ getAnswer.body = "plain"
    /\ err = ErrGetStatus
    /\ ret = <<>>

\* The cursor the content endpoint returned with the page it served in
\* answer to request i of the operation, as the client decodes it.
ReturnedAfter(i) ==
    IF ServerPage(srv, reqs[i].values).after = JsonNull THEN EmptyCursor
    ELSE ServerPage(srv, reqs[i].values).after

\* The cursor request i carries, the empty one when it carries none.
CarriedAfter(i) ==
    IF "after" \in DOMAIN reqs[i].values THEN reqs[i].values.after
    ELSE EmptyCursor

\* C23: in the pagination loop the first page request carries an empty
\* after cursor, every later one the after cursor returned with the page
\* before it, and none carries a before cursor.
C23_CursorChain ==
    (op = "AllSubmissions" /\ total > DefaultSliceSize) =>
        /\ \A i \in 1..Len(reqs) :
              /\ reqs[i].method = "GET"
              /\ "before" \notin DOMAIN reqs[i].values
              /\ CarriedAfter(i) = IF i = 1 THEN EmptyCursor ELSE ReturnedAfter(i - 1)
        /\ pc = "loop" => after = (IF reqs = <<>> THEN EmptyCursor
                                   ELSE ReturnedAfter(Len(reqs)))

C23_Witness ==
    /\ AllReturned
    /\ total = 250
    /\ Len(reqs) = 3
    /\ CarriedAfter(1) = EmptyCursor
    /\ CarriedAfter(2) = 100
    /\ CarriedAfter(3) = 200

C25_NoRestart ==
    (op = "AllSubmissions" /\ total > DefaultSliceSize) =>
        \A i \in 2..Len(reqs) : CarriedAfter(i) # EmptyCursor

\* The loop has sent at most total page requests, every page that did not
\* stop it has added a record, and it runs only while fewer than total
\* records are collected.
LoopBounded ==
    (op = "AllSubmissions" /\ total > DefaultSliceSize) =>
        /\ Cardinality(Gets(reqs)) <= total
        /\ Len(reqs) = Cardinality(Gets(reqs))
        /\ pc = "loop" =>
              /\ Len(results) < total
              /\ Len(results) >= Len(pages)
              /\ Len(reqs) = Len(pages)
              /\ \A i \in 1..Len(pages) : pages[i] >= 1

\* C26: for total > pageSize, whatever page sizes and cursors the server
\* answers, the pagination loop sends at most total page requests, and it
\* ends when every page fetch returns.
C26_LoopTerminates ==
    /\ []LoopBounded
    /\ (pc = "loop") ~> (pc = "done")

C26_Witness ==
    /\ op = "AllSubmissions"
    /\ pc = "done"
    /\ err = NoErr
    /\ srv.endCursor = "stuck"
    /\ srv.cap = 1
    /\ total = DefaultSliceSize + 1
    /\ Len(reqs) = total
    /\ Len(ret) = total

\* C27: when a page fetch of AllSubmissionsTo/AllSubmissionsOf fails, the
\* operation has returned, with the error and no records, whatever it had
\* collected, and the failed request is its last.
C27_FailedPageDiscardsAll ==
    (op = "AllSubmissions" /\ faulty) =>
        /\ pc = "done"
        /\ err # NoErr
        /\ ret = <<>>
        /\ getAnswer.fault \notin {"unasked", "none"}
        /\ Cardinality(Gets(reqs)) = Len(pages) + 1

C27_Witness ==
    /\ op = "AllSubmissions"
    /\ faulty
    /\ Len(pages) = 2
    /\ Len(results) = 2 * DefaultSliceSize
    /\ err = ErrTransport
    /\ ret = <<>>

\* C28: once the stored token holds a non-empty refresh token it holds one
\* after every step, refreshes that succeed and refreshes that fail
\* included, so the client is never Unrefreshable.
C28_RefreshTokenStays ==
    [][(client # NilClient /\ client.Token.RefreshToken # "") =>
          /\ client'.Token.RefreshToken # ""
          /\ ~Unrefreshable(client', now')]_vars

C28_Witness ==
    /\ client # NilClient
    /\ client.Token.AccessToken = "a2"
    /\ client.Token.RefreshToken = "r1"
    /\ tokAnswer.fault = "network"
    /\ err = ErrTransport

\* C29: every client handed to a caller holds a token with a non-empty
\* access token, after any calls and refreshes, and every GET was sent with
\* a non-empty bearer token.
C29_AccessTokenNonEmpty ==
    /\ client # NilClient =>
          (client.Token # NilToken /\ client.Token.AccessToken # "")
    /\ \A i \in Gets(reqs) : reqs[i].bearer # ""

C29_Witness ==
    /\ client # NilClient
    /\ tokAnswer.fault = "access token"
    /\ op = "AllSubmissions"
    /\ reqs # <<>>
    /\ client.Token.AccessToken # ""

\* C30: for every total <= pageSize, zero and the negative ones included,
\* AllSubmissionsTo/AllSubmissionsOf returns at most max(total, 0) records.
C30_AtMostTotal ==
    (AllReturned /\ total <= DefaultSliceSize) => Len(ret) <= Max(total, 0)

====
